---- MODULE Spec2Model ----
(***************************************************************************)
(* Weekly-rent price converter userscripts (realestate.co.nz NZD/wk ->     *)
(* USD/mo, realestate.com.au AUD/wk -> USD/mo).                            *)
(*                                                                         *)
(* The document is a tree of element and text nodes.  A text node's        *)
(* content is a sequence of tokens, the alphabet the scripts' regular      *)
(* expressions distinguish:                                                *)
(*   amt  "$" followed by a run of digits and commas   (\$[\d,]+)          *)
(*   pw   the words "per week" (any case)                                  *)
(*   ws   a run of white space, non-breaking space included                *)
(*   x    any other text                                                   *)
(*   wk   the literal "/wk . US" the scripts write                         *)
(*   mo   the literal "/mo" the scripts write                              *)
(*   num  a run of digits and commas with no "$" before it                 *)
(*   neg  "$-" followed by digits (a negative amount, formatted)           *)
(***************************************************************************)
EXTENDS Integers, Sequences, FiniteSets, TLC

VARIABLES
  \* the document and the DOM engine
  dom,            \* the document tree
  resolvedRate,   \* the rate getRate resolved to, which initWithRate's closures capture
  added,          \* inserted element roots handed to a re-scan that has not run yet
  lastOp,         \* the last operation of the script or the page
  inserts,        \* subtrees the page has inserted so far
  \* the converter, called on its own
  convIn,         \* the arguments: [amount, rate]
  convOut,        \* the results returned so far: [who, out]
  \* start-up: rate resolution and activation
  pc,             \* where the script is: start, fetching, resolved, rejected,
                  \* waitDCL, waitRetry, active
  now,            \* Date.now(), in milliseconds
  horizon,        \* the time at which observation of the page ends
  storageWritable, \* FALSE: localStorage.setItem throws (quota exceeded)
  cacheRate,      \* localStorage nzd_usd_rate (NoRate: no item)
  cacheTime,      \* localStorage nzd_usd_rate_time (0: no item)
  cache0,         \* the cache as the script found it
  fetches,        \* calls of fetch() made
  settled,        \* the endpoint's answer, once fetchRate has settled
  hasBody,        \* document.body is not null
  readyState,     \* document.readyState
  \* the change loop
  observing,      \* the MutationObserver is installed
  sweepAt,        \* the time of the next sweep-interval tick (0: not installed)
  lastScrollTime,
  debounceAt,     \* the time the pending debounce timer fires (0: none pending)
  debounceArgs,   \* the roots the pending timer's callback was given
  orphans,        \* pending debounce callbacks the closure's timer no longer names
  unscanned,      \* quiet windows begun so far minus re-scans run so far
  mutationQueue,  \* added element roots recorded for the observer, not yet delivered
  burst,          \* the roots collected by all callbacks since the timer last fired
  lastScan,       \* the last re-scan: [roots it processed, burst it followed]
  sweepPasses,    \* full-body passes the sweep timer has run
  scrolls,        \* scroll events so far
  \* realestate-aud-to-usd.user.js
  page,           \* the realestate.com.au document
  audToUsdRate,   \* the shared rate
  audPc,          \* "off": not installed; "start": installed; "running": init has run
  audFetch,       \* the GM_xmlhttpRequest: not sent, pending, or the answer it got
  audTimer,       \* the time the pending debounce timer fires (0: none pending)
  audRecords,     \* mutation records are queued for the observer
  audNow,         \* Date.now() on the realestate.com.au page
  audPasses,      \* calls of convertPricesOnPage so far
  audInserts,     \* subtrees the page has appended so far
  audOp           \* the last step of the script or the page

domVars == <<dom, resolvedRate, added, lastOp, inserts>>

convVars == <<convIn, convOut>>

startVars ==
  <<pc, storageWritable, cacheRate, cacheTime, cache0, fetches, settled, hasBody, readyState>>

loopVars ==
  <<now, horizon, observing, sweepAt, lastScrollTime, debounceAt, debounceArgs,
    orphans, unscanned, mutationQueue, burst, lastScan, sweepPasses, scrolls>>

audVars ==
  <<page, audToUsdRate, audPc, audFetch, audTimer, audRecords, audNow, audPasses,
    audInserts, audOp>>

vars == <<domVars, convVars, startVars, loopVars, audVars>>

\* ------------------------------------------------------------------ bounds

\* Node identifiers available to a document (the body is node 1).
MaxNodes == 11

\* Subtrees the page inserts after the script has started.
MaxInserts == 1

\* ------------------------------------------------------- program constants

\* part_000:17  FALLBACK_RATE = 0.59, as the rational 59/100
FALLBACK_RATE == [num |-> 59, den |-> 100]

\* part_000:166  "More than 6 text nodes -> this is a wider container"
MAX_TEXT_NODES == 6

\* the value parseInt gives for a string with no leading digit
NaN == -1

NodeIds == 1..MaxNodes

\* document.body
Body == 1

\* "no node": null, and also the parent of the body (the html element, which
\* the scripts never mark and never rewrite)
NoNode == 0

\* ------------------------------------------------------------ text tokens

DigitChars == <<"0", "1", "2", "3", "4", "5", "6", "7", "8", "9">>

Tok(t, ds) == [t |-> t, ds |-> ds]
Amt(ds) == Tok("amt", ds)
Pw == Tok("pw", <<>>)
Ws == Tok("ws", <<>>)
X == Tok("x", <<>>)
Wk == Tok("wk", <<>>)
Mo == Tok("mo", <<>>)

DigitVal(c) == (CHOOSE i \in 1..10 : DigitChars[i] = c) - 1

\* str.replace(/,/g, '')
StripCommas(ds) == SelectSeq(ds, LAMBDA c : c # ",")

RECURSIVE DigitsValue(_)
DigitsValue(ds) ==
  IF ds = <<>> THEN 0
  ELSE 10 * DigitsValue(SubSeq(ds, 1, Len(ds) - 1)) + DigitVal(ds[Len(ds)])

\* parseInt(match[1].replace(/,/g, ''), 10): the capture holds only digits and
\* commas, so the result is NaN exactly when no digit is left.
parseInt(ds) ==
  IF StripCommas(ds) = <<>> THEN NaN ELSE DigitsValue(StripCommas(ds))

RECURSIVE Digits(_)
Digits(n) ==
  IF n < 10 THEN <<DigitChars[n + 1]>>
  ELSE Digits(n \div 10) \o <<DigitChars[(n % 10) + 1]>>

RECURSIVE Group(_)
Group(ds) ==
  IF Len(ds) <= 3 THEN ds
  ELSE Group(SubSeq(ds, 1, Len(ds) - 3)) \o <<",">> \o SubSeq(ds, Len(ds) - 2, Len(ds))

\* n.toLocaleString('en-NZ') and n.toLocaleString('en-US') of an integer n >= 0:
\* decimal digits, a comma between groups of three.
toLocaleString(n) == Group(Digits(n))

\* ------------------------------------------------------ regular expressions

\* Index of the first token at which /\$([\d,]+)[\s ]*per week/i matches
\* from position i: an amount, any white space, then "per week".
MatchEnd(s, i) ==
  IF s[i].t # "amt" THEN 0
  ELSE LET after == {j \in (i + 1)..Len(s) : s[j].t # "ws"}
       IN IF after = {} THEN 0
          ELSE LET j == CHOOSE j \in after : \A k \in after : j <= k
               IN IF s[j].t = "pw" THEN j ELSE 0

\* PRICE_REGEX: the leftmost match as <<first token, last token>>, <<0, 0>> for none.
PRICE_REGEX(s) ==
  LET at == {i \in 1..Len(s) : MatchEnd(s, i) # 0}
  IN IF at = {} THEN <<0, 0>>
     ELSE LET i == CHOOSE i \in at : \A k \in at : i <= k
          IN <<i, MatchEnd(s, i)>>

\* PRICE_AMOUNT_REGEX and the fast path's /\$[\d,]+/: the first amount token,
\* 0 for no match.
PRICE_AMOUNT_REGEX(s) ==
  LET at == {i \in 1..Len(s) : s[i].t = "amt"}
  IN IF at = {} THEN 0 ELSE CHOOSE i \in at : \A k \in at : i <= k

\* /^[\s ]*per week[\s ]*$/i (fast path) and
\* /^\s*(?: \s*)?per week\s*$/i (pass 2): \s matches the non-breaking
\* space too, so both accept white space, "per week", white space.
isPerWeekOnly(s) ==
  /\ \E i \in 1..Len(s) : s[i].t = "pw"
  /\ Cardinality({i \in 1..Len(s) : s[i].t = "pw"}) = 1
  /\ \A i \in 1..Len(s) : s[i].t \in {"pw", "ws"}

\* ------------------------------------------------------------- conversion

\* Math.round of the rational p/q, q > 0: the integer floor(p/q + 1/2).
MathRound(p, q) == (2 * p + q) \div (2 * q)

nzdPerWeekToUsdPerMonthFloor(nzd, rate) == (nzd * 52 * rate.num) \div (12 * rate.den)

nzdPerWeekToUsdPerMonthFourWeeks(nzd, rate) == MathRound(nzd * 4 * rate.num, rate.den)

\* Math.round((nzd * 52) / 12 * rate)
nzdPerWeekToUsdPerMonth(nzd, rate) == MathRound(nzd * 52 * rate.num, 12 * rate.den)

\* realestate-aud-to-usd.user.js:
\* Math.round((aud * 52) / 12 * audToUsdRate)
audPerWeekToUsdPerMonth(aud, rate) ==
  MathRound(aud * 52 * rate.num, 12 * rate.den)

\* 'US$' + amount.toLocaleString('en-US') without its leading "US", which the
\* wk token carries: "$" and the grouped digits ("$-" and digits when negative).
formatUsd(amount) ==
  IF amount < 0 THEN Tok("neg", toLocaleString(0 - amount))
  ELSE Amt(toLocaleString(amount))

\* `$${nzd.toLocaleString('en-NZ')}/wk · ${formatUsd(usd)}/mo`
replacementText(nzd, usd) == <<Amt(toLocaleString(nzd)), Wk, formatUsd(usd), Mo>>

\* String.prototype.replace with a replacement STRING and a pattern of one
\* capture group: "$1" (also the "$1" of "$10".."$19", which name no group)
\* stands for the capture; "$" before any other character is literal.
GetSubstitution(repl, cap) ==
  [i \in 1..Len(repl) |->
     IF repl[i].t = "amt" /\ repl[i].ds[1] = "1"
     THEN Tok("num", cap \o Tail(repl[i].ds))
     ELSE repl[i]]

\* --------------------------------------------------------------- the tree

\* A document: kind (free/el/text), ordered child lists and parents, text content,
\* the elements carrying data-nzd-converted (conv), the elements matching
\* [data-test="price-display__price-method"] (sel), and the number of
\* assignments made to each text node's textContent (writes).  Two fields
\* record what pass 2 saw when it chose an anchor: the number of text nodes
\* the anchor held (anchorTexts, 0 for an element pass 2 has not marked), and
\* the anchors that had an element beneath them passing the same filters
\* (loose).
Range(s) == {s[i] : i \in 1..Len(s)}

\* node.parentElement (NoNode for the body and for a removed node)
Parent(d, n) == d.par[n]

RECURSIVE DescOfList(_, _)
DescOfList(d, ks) ==
  IF ks = <<>> THEN <<>>
  ELSE <<Head(ks)>> \o DescOfList(d, d.kids[Head(ks)]) \o DescOfList(d, Tail(ks))

\* The proper descendants of n, in document order.
Descendants(d, n) == DescOfList(d, d.kids[n])

\* createTreeWalker(n, SHOW_TEXT): the text nodes below n, in document order.
TextNodesOf(d, n) == SelectSeq(Descendants(d, n), LAMBDA m : d.kind[m] = "text")

\* n.querySelectorAll('*'): the elements below n, in document order.
ElementsOf(d, n) == SelectSeq(Descendants(d, n), LAMBDA m : d.kind[m] = "el")

RECURSIVE ConcatText(_, _)
ConcatText(d, tns) ==
  IF tns = <<>> THEN <<>> ELSE d.text[Head(tns)] \o ConcatText(d, Tail(tns))

\* node.textContent
textContent(d, n) ==
  IF d.kind[n] = "text" THEN d.text[n] ELSE ConcatText(d, TextNodesOf(d, n))

\* child.remove()
Remove(d, n) ==
  LET p == Parent(d, n)
  IN IF p = NoNode THEN d
     ELSE [d EXCEPT !.kids[p] = SelectSeq(@, LAMBDA m : m # n), !.par[n] = NoNode]

RECURSIVE RemovePerWeek(_, _)
\* for (const child of [...el.querySelectorAll('*')])
\*   if (<per week only>.test(child.textContent)) child.remove();
RemovePerWeek(d, els) ==
  IF els = <<>> THEN d
  ELSE RemovePerWeek(
         IF isPerWeekOnly(textContent(d, Head(els))) THEN Remove(d, Head(els)) ELSE d,
         Tail(els))

\* ----------------------------------------------------- the sidebar fast path

Containers(d, root) ==
  IF root \in d.sel THEN <<root>>
  ELSE SelectSeq(ElementsOf(d, root), LAMBDA m : m \in d.sel)

fastPathElement(d, el, rate) ==
  IF el \in d.conv THEN d
  ELSE
    LET amountNodes == SelectSeq(d.kids[el],
                         LAMBDA n : d.kind[n] = "text" /\ PRICE_AMOUNT_REGEX(d.text[n]) # 0)
    IN IF amountNodes = <<>> THEN d
       ELSE
         LET amountNode == Head(amountNodes)
             s == d.text[amountNode]
             nzd == parseInt(s[PRICE_AMOUNT_REGEX(s)].ds)
             usd == nzdPerWeekToUsdPerMonth(nzd, rate)
             d1 == [d EXCEPT !.conv = @ \cup {el},
                             !.text[amountNode] = replacementText(nzd, usd) \o <<Ws>>,
                             !.writes[amountNode] = @ + 1]
         IN IF nzd = NaN THEN d ELSE RemovePerWeek(d1, ElementsOf(d1, el))

RECURSIVE fastPathLoop(_, _, _)
fastPathLoop(d, els, rate) ==
  IF els = <<>> THEN d
  ELSE fastPathLoop(fastPathElement(d, Head(els), rate), Tail(els), rate)

transformPriceDisplayElements(d, root, rate) == fastPathLoop(d, Containers(d, root), rate)

\* ---------------------------------------------------------- hasConvertedAncestor

RECURSIVE hasConvertedAncestor(_, _, _)
hasConvertedAncestor(d, el, stopAt) ==
  IF el = NoNode \/ el = stopAt THEN FALSE
  ELSE IF el \in d.conv THEN TRUE
  ELSE hasConvertedAncestor(d, Parent(d, el), stopAt)

\* ------------------------------------------------------------------ pass 1

pass1NodeNoMark(d, tn, root, rate) ==
  LET s == d.text[tn]
      m == PRICE_REGEX(s)
      nzd == parseInt(s[m[1]].ds)
      usd == nzdPerWeekToUsdPerMonth(nzd, rate)
      replaced == SubSeq(s, 1, m[1] - 1) \o replacementText(nzd, usd)
                    \o SubSeq(s, m[2] + 1, Len(s))
  IN IF m[1] = 0 \/ nzd = NaN \/ hasConvertedAncestor(d, Parent(d, tn), Parent(d, root))
     THEN d
     ELSE [d EXCEPT !.text[tn] = replaced, !.writes[tn] = @ + 1]

pass1Node(d, tn, root, rate) ==
  LET s == d.text[tn]
      m == PRICE_REGEX(s)
      pe == Parent(d, tn)
      nzd == parseInt(s[m[1]].ds)
      usd == nzdPerWeekToUsdPerMonth(nzd, rate)
      replaced == SubSeq(s, 1, m[1] - 1) \o replacementText(nzd, usd)
                    \o SubSeq(s, m[2] + 1, Len(s))
  IN IF m[1] = 0 THEN d
     ELSE IF hasConvertedAncestor(d, pe, Parent(d, root)) THEN d
     ELSE IF nzd = NaN THEN d
     ELSE [d EXCEPT !.conv = IF pe # NoNode THEN @ \cup {pe} ELSE @,
                    !.text[tn] = replaced,
                    !.writes[tn] = @ + 1]

RECURSIVE pass1Loop(_, _, _, _)
pass1Loop(d, tns, root, rate) ==
  IF tns = <<>> THEN d
  ELSE pass1Loop(pass1Node(d, Head(tns), root, rate), Tail(tns), root, rate)

pass1(d, root, rate) == pass1Loop(d, TextNodesOf(d, root), root, rate)

\* ------------------------------------------------------------------ pass 2

isWiderContainerNever(allTextNodes) == FALSE

\* allTextNodes.length > 6
isWiderContainer(allTextNodes) == Len(allTextNodes) > MAX_TEXT_NODES

\* The filters of pass 2 on an element's text: the combined text matches
\* PRICE_REGEX, no single text node matches it, at most 6 text nodes.
passesFilters(d, el) ==
  LET allTextNodes == TextNodesOf(d, el)
  IN /\ PRICE_REGEX(textContent(d, el))[1] # 0
     /\ \A i \in 1..Len(allTextNodes) : PRICE_REGEX(d.text[allTextNodes[i]])[1] = 0
     /\ Len(allTextNodes) <= MAX_TEXT_NODES

pass2Element(d, el, root, rate) ==
  LET allTextNodes == TextNodesOf(d, el)
      hasFullMatch == \E i \in 1..Len(allTextNodes) :
                         PRICE_REGEX(d.text[allTextNodes[i]])[1] # 0
      priceNodes == SelectSeq(allTextNodes,
                              LAMBDA n : PRICE_AMOUNT_REGEX(d.text[n]) # 0)
      priceNode == Head(priceNodes)
      s == d.text[priceNode]
      at == PRICE_AMOUNT_REGEX(s)
      nzd == parseInt(s[at].ds)
      usd == nzdPerWeekToUsdPerMonth(nzd, rate)
      replaced == SubSeq(s, 1, at - 1)
                    \o GetSubstitution(replacementText(nzd, usd), s[at].ds)
                    \o SubSeq(s, at + 1, Len(s))
      inner == {e \in Range(ElementsOf(d, el)) : passesFilters(d, e)}
      d1 == [d EXCEPT !.conv = @ \cup {el},
                      !.text[priceNode] = replaced,
                      !.writes[priceNode] = @ + 1,
                      !.anchorTexts[el] = Len(allTextNodes),
                      !.loose = IF inner # {} THEN @ \cup {el} ELSE @]
  IN IF hasConvertedAncestor(d, el, Parent(d, root)) THEN d
     ELSE IF PRICE_REGEX(textContent(d, el))[1] = 0 THEN d
     ELSE IF hasFullMatch THEN d
     ELSE IF isWiderContainer(allTextNodes) THEN d
     ELSE IF priceNodes = <<>> THEN d
     ELSE IF nzd = NaN THEN d
     ELSE RemovePerWeek(d1, ElementsOf(d1, el))

RECURSIVE pass2Loop(_, _, _, _)
pass2Loop(d, els, root, rate) ==
  IF els = <<>> THEN d
  ELSE pass2Loop(pass2Element(d, Head(els), root, rate), Tail(els), root, rate)

pass2(d, root, rate) == pass2Loop(d, <<root>> \o ElementsOf(d, root), root, rate)

\* --------------------------------------------------------- transformSubtree

transformSubtree(d, root, rate) ==
  pass2(pass1(transformPriceDisplayElements(d, root, rate), root, rate), root, rate)

\* ------------------------------------------------------- building documents

\* A document is written as its nodes in document order, each naming its
\* parent by position (0: no parent, the body; in a template: the insertion
\* point).
E(p) == [p |-> p, k |-> "el", t |-> <<>>, s |-> FALSE]
ES(p) == [p |-> p, k |-> "el", t |-> <<>>, s |-> TRUE]
T(p, toks) == [p |-> p, k |-> "text", t |-> toks, s |-> FALSE]

Positions(nodes) == [i \in 1..Len(nodes) |-> i]

MkDom(nodes) ==
  [kind |-> [n \in NodeIds |-> IF n <= Len(nodes) THEN nodes[n].k ELSE "free"],
   kids |-> [n \in NodeIds |-> SelectSeq(Positions(nodes), LAMBDA m : nodes[m].p = n)],
   par |-> [n \in NodeIds |-> IF n <= Len(nodes) THEN nodes[n].p ELSE NoNode],
   text |-> [n \in NodeIds |-> IF n <= Len(nodes) THEN nodes[n].t ELSE <<>>],
   conv |-> {},
   sel |-> {n \in 1..Len(nodes) : nodes[n].s},
   writes |-> [n \in NodeIds |-> 0],
   anchorTexts |-> [n \in NodeIds |-> 0],
   loose |-> {}]

Used(d) == Cardinality({n \in NodeIds : d.kind[n] # "free"})

\* The page appends the subtree tmpl as the last child of element p.
Graft(d, p, tmpl) ==
  LET base == Used(d)
      isNew(n) == n > base /\ n <= base + Len(tmpl)
      kidsOf(n) == LET ks == SelectSeq(Positions(tmpl), LAMBDA m : tmpl[m].p = n - base)
                   IN [i \in 1..Len(ks) |-> base + ks[i]]
  IN [d EXCEPT
        !.kind = [n \in NodeIds |-> IF isNew(n) THEN tmpl[n - base].k ELSE @[n]],
        !.kids = [n \in NodeIds |-> IF n = p THEN @[n] \o <<base + 1>>
                                    ELSE IF isNew(n) THEN kidsOf(n) ELSE @[n]],
        !.par = [n \in NodeIds |-> IF n = base + 1 THEN p
                                   ELSE IF isNew(n) THEN base + tmpl[n - base].p ELSE @[n]],
        !.text = [n \in NodeIds |-> IF isNew(n) THEN tmpl[n - base].t ELSE @[n]],
        !.sel = @ \cup {n \in NodeIds : isNew(n) /\ tmpl[n - base].s}]

InDocument(d) == {Body} \cup Range(Descendants(d, Body))

\* -------------------------------------------------- the DOM engine: actions

\* transformSubtree(document.body, rate): the initial pass and every sweep.
BodyPass ==
  /\ dom' = transformSubtree(dom, Body, resolvedRate)
  /\ lastOp' = "body"
  /\ UNCHANGED <<resolvedRate, added, inserts, convVars, audVars, startVars, loopVars>>

\* roots.forEach((root) => transformSubtree(root, rate)) for one root.
RootPass(r) ==
  /\ r \in added
  /\ dom' = transformSubtree(dom, r, resolvedRate)
  /\ added' = added \ {r}
  /\ lastOp' = "root"
  /\ UNCHANGED <<resolvedRate, inserts, convVars, audVars, startVars, loopVars>>

PageInsert(p, tmpl) ==
  /\ inserts < MaxInserts
  /\ p \in InDocument(dom) /\ dom.kind[p] = "el"
  /\ Used(dom) + Len(tmpl) <= MaxNodes
  /\ dom' = Graft(dom, p, tmpl)
  /\ added' = added \cup {Used(dom) + 1}
  /\ inserts' = inserts + 1
  /\ lastOp' = "page"
  /\ UNCHANGED <<resolvedRate, convVars, audVars, startVars, loopVars>>

\* --------------------------------------------- the documents and insertions

\* The digit runs of the amounts the page shows: "$560", "$900", "$0" and
\* "$," (a run with no digit in it).
SourceAmounts == {<<"5", "6", "0">>, <<"9", "0", "0">>, <<"0">>, <<",">>}

\* A text node holding a price: the amount alone, or the amount and "per week".
PriceTexts ==
  {<<Amt(a)>> : a \in SourceAmounts} \cup {<<Amt(a), Ws, Pw>> : a \in SourceAmounts}

\* <body><div><p>t1</p>t2<span>t3</span></div></body>; the div or the p may be
\* the sidebar's price-display element.
CardDoc(t1, t2, t3, which) ==
  MkDom(<<E(0),
          IF which = 1 THEN ES(1) ELSE E(1),
          IF which = 2 THEN ES(2) ELSE E(2),
          T(3, t1), T(2, t2), E(2), T(6, t3)>>)

\* <body>t1 t2<div>t3<span>"per week"</span></div> x x [x]</body>: a body whose
\* own text nodes surround a split price, with 6 or 7 text nodes in all.
WideDoc(t1, t2, t3, fill) ==
  MkDom(<<E(0), T(1, t1), T(1, t2), E(1), T(4, t3), E(4), T(6, <<Pw>>),
          T(1, <<X>>), T(1, <<X>>)>> \o [i \in 1..fill |-> T(1, <<X>>)])

Docs ==
  {CardDoc(t1, t2, t3, w) : t1 \in PriceTexts \cup {<<X>>},
                            t2 \in {<<Amt(<<"7", "6", "0">>)>>, <<Pw>>, <<X>>},
                            t3 \in {<<Pw>>, <<X>>}, w \in 0..2}
    \cup {WideDoc(t1, t2, t3, f) : t1 \in {<<Amt(<<"7", "6", "0">>)>>, <<X>>},
                                   t2 \in {<<Pw>>, <<X>>},
                                   t3 \in PriceTexts, f \in 0..1}

\* What the page inserts: <span>$560 per week</span>, the split layout
\* <div>$560<span>per week</span></div>, and the sidebar's
\* <div data-test="price-display__price-method">$560 <span> per week</span></div>.
Templates ==
  { <<E(0), T(1, <<Amt(<<"5", "6", "0">>), Ws, Pw>>)>>,
    <<E(0), T(1, <<Amt(<<"5", "6", "0">>)>>), E(1), T(3, <<Pw>>)>>,
    <<ES(0), T(1, <<Amt(<<"5", "6", "0">>), Ws>>), E(1), T(3, <<Ws, Pw>>)>> }

\* ------------------------------------------------------- the rate provider

\* part_000:16  CACHE_TTL_MS = 60 * 60 * 1000
CACHE_TTL_MS == 60 * 60 * 1000

\* "no rate": null, NaN (parseFloat of a missing item) or a rejected promise
NoRate == [num |-> 0, den |-> 0]

\* JavaScript truthiness of a number: neither 0 nor NaN
Truthy(r) == r.num # 0

\* What the endpoint may answer: a network error, a body that is not JSON, a
\* JSON body with no rates.USD, or rates.USD = 0.61, 0 or -0.61.
NoResponse == [kind |-> "none", usd |-> NoRate]
ApiRates == {[num |-> 61, den |-> 100], [num |-> 0, den |-> 100], [num |-> 0 - 61, den |-> 100]}
Responses ==
  {[kind |-> k, usd |-> NoRate] : k \in {"neterr", "badjson", "nofield"}}
    \cup {[kind |-> "ok", usd |-> r] : r \in ApiRates}

\* getCachedRate(): the cached rate, or NoRate for null
getCachedRate(cRate, cTime, t) ==
  IF Truthy(cRate) /\ cTime # 0 /\ t - cTime < CACHE_TTL_MS THEN cRate ELSE NoRate

fetchRateNoCatch(resp, writable) ==
  IF resp.kind = "ok" /\ Truthy(resp.usd) /\ writable
  THEN [rate |-> resp.usd, store |-> TRUE]
  ELSE IF resp.kind \in {"neterr", "badjson"} THEN [rate |-> NoRate, store |-> FALSE]
  ELSE [rate |-> FALLBACK_RATE, store |-> FALSE]

\* fetchRate(), given the endpoint's answer: the rate it returns and whether it
\* wrote the cache.  Everything that throws inside the try block, setItem
\* included, ends in the catch block and the fallback rate.
fetchRate(resp, writable) ==
  IF resp.kind = "ok" /\ Truthy(resp.usd) /\ writable
  THEN [rate |-> resp.usd, store |-> TRUE]
  ELSE [rate |-> FALLBACK_RATE, store |-> FALSE]

\* ------------------------------------------------------------ the change loop

\* part_000:24
DEBOUNCE_MS == 200

\* part_000:240
SWEEP_INTERVAL_MS == 1500

\* part_000:241
SWEEP_IDLE_MS == 10000

\* The time the observation of a page lasts, in milliseconds.
MaxTime == 12000

\* The time the endpoint takes to answer, and the parser to finish, at most.
MaxLoadTime == 500

\* Subtrees the page inserts while the change loop runs.
MaxMutations == 2

\* Scroll events of the user.
MaxScrolls == 1

\* Date.now() when the script starts
StartTime == 2 * CACHE_TTL_MS

\* The clock advances by a third of the sweep interval, or up to the next
\* timer that is due when that comes first.
TimeStep == SWEEP_INTERVAL_MS \div 3

Min(S) == CHOOSE x \in S : \A y \in S : x <= y

NoScan == [roots |-> {}, burst |-> {}]

\* What the page inserts while the change loop runs: <span>$900 per week</span>,
\* appended to the body.
LoopTemplates == { <<E(0), T(1, <<Amt(<<"9", "0", "0">>), Ws, Pw>>)>> }
LoopPositions == {Body}

\* getRate().then(initWithRate), up to the first await
ScriptStart ==
  /\ pc = "start"
  /\ LET cached == getCachedRate(cacheRate, cacheTime, now)
     IN IF cached # NoRate
        THEN /\ pc' = "resolved"
             /\ resolvedRate' = cached
             /\ fetches' = fetches
        ELSE /\ pc' = "fetching"
             /\ resolvedRate' = resolvedRate
             /\ fetches' = fetches + 1
  /\ lastOp' = "start"
  /\ UNCHANGED <<dom, added, inserts, convVars, audVars, storageWritable, cacheRate, cacheTime,
                 cache0, settled, hasBody, readyState, loopVars>>

\* fetchRate() after its awaits: the endpoint has answered with resp
FetchSettle(resp) ==
  /\ pc = "fetching"
  /\ LET r == fetchRate(resp, storageWritable)
     IN /\ resolvedRate' = r.rate
        /\ pc' = IF r.rate = NoRate THEN "rejected" ELSE "resolved"
        /\ cacheRate' = IF r.store THEN r.rate ELSE cacheRate
        /\ cacheTime' = IF r.store THEN now ELSE cacheTime
  /\ settled' = resp
  /\ lastOp' = "settle"
  /\ UNCHANGED <<dom, added, inserts, convVars, audVars, storageWritable, cache0, fetches,
                 hasBody, readyState, loopVars>>

initWithRateNoBodyCheck(rs) ==
  /\ dom' = transformSubtree(dom, Body, resolvedRate)
  /\ pc' = "active"
  /\ observing' = TRUE
  /\ lastScrollTime' = now
  /\ sweepAt' = now + SWEEP_INTERVAL_MS
  /\ lastOp' = "init"

\* initWithRate(rate), called with document.readyState = rs
initWithRate(rs) ==
  IF ~hasBody
  THEN /\ pc' = IF rs = "loading" THEN "waitDCL" ELSE "waitRetry"
       /\ lastOp' = "defer"
       /\ UNCHANGED <<dom, observing, lastScrollTime, sweepAt>>
  ELSE /\ dom' = transformSubtree(dom, Body, resolvedRate)
       /\ pc' = "active"
       /\ observing' = TRUE
       /\ lastScrollTime' = now
       /\ sweepAt' = now + SWEEP_INTERVAL_MS
       /\ lastOp' = "init"

initFrame ==
  UNCHANGED <<resolvedRate, added, inserts, convVars, audVars, storageWritable, cacheRate, cacheTime, cache0,
              fetches, settled, hasBody, now, horizon, debounceAt, debounceArgs,
              orphans, unscanned, mutationQueue, burst, lastScan, sweepPasses, scrolls>>

\* the promise of getRate() is fulfilled: .then(initWithRate)
ThenInit ==
  /\ pc = "resolved"
  /\ initWithRate(readyState)
  /\ initFrame
  /\ UNCHANGED readyState

\* setTimeout(() => initWithRate(rate), 0) fires
RetryInit ==
  /\ pc = "waitRetry"
  /\ initWithRate(readyState)
  /\ initFrame
  /\ UNCHANGED readyState

\* The parser is done: readyState leaves "loading" and the DOMContentLoaded
\* listener, when the script added one, calls initWithRate(rate).
DOMContentLoaded ==
  /\ readyState = "loading"
  /\ readyState' = "interactive"
  /\ IF pc = "waitDCL"
     THEN initWithRate("interactive")
     ELSE UNCHANGED <<dom, pc, observing, lastScrollTime, sweepAt, lastOp>>
  /\ initFrame

\* The page gets its body element.
BodyAppears ==
  /\ ~hasBody
  /\ hasBody' = TRUE
  /\ UNCHANGED <<domVars, convVars, audVars, pc, storageWritable, cacheRate, cacheTime, cache0,
                 fetches, settled, readyState, loopVars>>

\* The page appends a subtree and the observer records its root.  (What the
\* page inserts before the observer is installed is part of the document the
\* initial pass finds.)
PageMutation(p, tmpl) ==
  /\ observing
  /\ inserts < MaxMutations
  /\ p \in InDocument(dom) /\ dom.kind[p] = "el"
  /\ Used(dom) + Len(tmpl) <= MaxNodes
  /\ dom' = Graft(dom, p, tmpl)
  /\ inserts' = inserts + 1
  /\ mutationQueue' = Append(mutationQueue, Used(dom) + 1)
  /\ lastOp' = "page"
  /\ UNCHANGED <<resolvedRate, added, convVars, audVars, startVars, now, horizon, observing, sweepAt,
                 lastScrollTime, debounceAt, debounceArgs, orphans, unscanned, burst,
                 lastScan, sweepPasses, scrolls>>

debounceNoClear(args) ==
  /\ debounceAt' = now + DEBOUNCE_MS
  /\ debounceArgs' = args
  /\ orphans' = orphans \cup
       (IF debounceAt # 0 THEN {[at |-> debounceAt, args |-> debounceArgs]} ELSE {})

\* The function debounce(fn, ms) returns, called with args:
\* clearTimeout(timer); timer = setTimeout(() => fn(...args), ms)
debounce(args) ==
  /\ debounceAt' = now + DEBOUNCE_MS
  /\ debounceArgs' = args
  /\ orphans' = orphans

\* The MutationObserver's callback, given the records queued since the last one.
ObserverCallback ==
  /\ observing
  /\ mutationQueue # <<>>
  /\ debounce(mutationQueue)
  /\ burst' = (IF debounceAt = 0 \/ now >= debounceAt THEN {} ELSE burst)
                 \cup Range(mutationQueue)
  /\ unscanned' = IF debounceAt = 0 \/ now >= debounceAt THEN unscanned + 1
                   ELSE unscanned
  /\ mutationQueue' = <<>>
  /\ lastOp' = "observe"
  /\ UNCHANGED <<dom, resolvedRate, added, inserts, convVars, audVars, startVars, now, horizon, observing,
                 sweepAt, lastScrollTime, lastScan, sweepPasses, scrolls>>

RECURSIVE forEachRoot(_, _, _)
\* roots.forEach((root) => transformSubtree(root, rate))
forEachRoot(d, roots, r) ==
  IF roots = <<>> THEN d
  ELSE forEachRoot(transformSubtree(d, Head(roots), r), Tail(roots), r)

\* The debounce callbacks setTimeout holds: the one the closure's timer names
\* and those it no longer names.
PendingDebounce ==
  orphans \cup
    (IF debounceAt # 0 THEN {[at |-> debounceAt, args |-> debounceArgs]} ELSE {})

\* A debounce timer fires: debouncedTransform's callback runs.
DebounceFire ==
  /\ mutationQueue = <<>>
  /\ \E q \in PendingDebounce :
       /\ q.at = now
       /\ dom' = forEachRoot(dom, q.args, resolvedRate)
       /\ lastScan' = [roots |-> Range(q.args), burst |-> burst]
       /\ IF q \in orphans
          THEN orphans' = orphans \ {q} /\ UNCHANGED <<debounceAt, debounceArgs>>
          ELSE debounceAt' = 0 /\ debounceArgs' = <<>> /\ orphans' = orphans
  /\ unscanned' = unscanned - 1
  /\ burst' = {}
  /\ lastOp' = "rescan"
  /\ UNCHANGED <<resolvedRate, added, inserts, convVars, audVars, startVars, now, horizon, observing,
                 sweepAt, lastScrollTime, mutationQueue, sweepPasses, scrolls>>

\* window's scroll listener
Scroll ==
  /\ pc = "active"
  /\ scrolls < MaxScrolls
  /\ mutationQueue = <<>>
  /\ lastScrollTime' = now
  /\ scrolls' = scrolls + 1
  /\ lastOp' = "scroll"
  /\ UNCHANGED <<dom, resolvedRate, added, inserts, convVars, audVars, startVars, now, horizon, observing,
                 sweepAt, debounceAt, debounceArgs, orphans, unscanned,
                 mutationQueue, burst, lastScan,
                 sweepPasses>>

sweepIdleNever(t, last) == FALSE

\* Date.now() - lastScrollTime > SWEEP_IDLE_MS
sweepIdle(t, last) == t - last > SWEEP_IDLE_MS

\* The sweep interval ticks.
SweepTick ==
  /\ sweepAt # 0 /\ now = sweepAt
  /\ mutationQueue = <<>>
  /\ sweepAt' = sweepAt + SWEEP_INTERVAL_MS
  /\ IF sweepIdle(now, lastScrollTime)
     THEN /\ lastOp' = "idle"
          /\ UNCHANGED <<dom, sweepPasses>>
     ELSE /\ dom' = transformSubtree(dom, Body, resolvedRate)
          /\ sweepPasses' = sweepPasses + 1
          /\ lastOp' = "sweep"
  /\ UNCHANGED <<resolvedRate, added, inserts, convVars, audVars, startVars, now, horizon, observing,
                 lastScrollTime, debounceAt, debounceArgs, orphans, unscanned,
                 mutationQueue, burst, lastScan,
                 scrolls>>

\* The instants the clock stops at next: a step ahead, a timer that is due,
\* the middle of a running debounce window.
Stops ==
  {now + TimeStep}
    \cup ({debounceAt, sweepAt} \ {0})
    \cup {q.at : q \in orphans}
    \cup (IF debounceAt - DEBOUNCE_MS \div 2 > now
          THEN {debounceAt - DEBOUNCE_MS \div 2} ELSE {})
NextTime == Min(Stops)

\* The endpoint has yet to answer, or the page is still being loaded.
Loading == pc = "fetching" \/ readyState = "loading" \/ ~hasBody

\* Time passes: no callback is due, no microtask is waiting.
Advance ==
  /\ pc \in {"fetching", "waitDCL", "active", "rejected"} \/ (pc = "waitRetry" /\ ~hasBody)
  /\ Loading => NextTime <= StartTime + MaxLoadTime
  /\ mutationQueue = <<>>
  /\ NextTime > now
  /\ NextTime <= horizon
  /\ now' = NextTime
  /\ UNCHANGED <<domVars, convVars, audVars, startVars, horizon, observing, sweepAt, lastScrollTime,
                 debounceAt, debounceArgs, orphans, unscanned,
                 mutationQueue, burst, lastScan, sweepPasses,
                 scrolls>>

Next ==
  \/ ScriptStart
  \/ \E resp \in Responses : FetchSettle(resp)
  \/ ThenInit
  \/ RetryInit
  \/ DOMContentLoaded
  \/ BodyAppears
  \/ \E p \in LoopPositions, tmpl \in LoopTemplates : PageMutation(p, tmpl)
  \/ ObserverCallback
  \/ DebounceFire
  \/ Scroll
  \/ SweepTick
  \/ Advance

\* ------------------------------------------------------------ initial states

DomIdle ==
  /\ dom = MkDom(<<E(0)>>)
  /\ resolvedRate = NoRate
  /\ added = {}
  /\ lastOp = "none"
  /\ inserts = 0

ConvIdle ==
  /\ convIn = [amount |-> 0, rate |-> NoRate]
  /\ convOut = {}

LoopIdle ==
  /\ now = StartTime
  /\ horizon = StartTime
  /\ observing = FALSE
  /\ sweepAt = 0
  /\ lastScrollTime = 0
  /\ debounceAt = 0
  /\ debounceArgs = <<>>
  /\ orphans = {}
  /\ unscanned = 0
  /\ mutationQueue = <<>>
  /\ burst = {}
  /\ lastScan = NoScan
  /\ sweepPasses = 0
  /\ scrolls = 0

StartIdle ==
  /\ pc = "none"
  /\ storageWritable = TRUE
  /\ cacheRate = NoRate
  /\ cacheTime = 0
  /\ cache0 = [rate |-> NoRate, time |-> 0]
  /\ fetches = 0
  /\ settled = NoResponse
  /\ hasBody = TRUE
  /\ readyState = "complete"

\* ------------------------------------- realestate-aud-to-usd.user.js: the page

\* realestate-aud-to-usd.user.js:16  FALLBACK_RATE = 0.67
AUD_FALLBACK_RATE == [num |-> 67, den |-> 100]

\* realestate-aud-to-usd.user.js:18  DEBOUNCE_MS = 400
AUD_DEBOUNCE_MS == 400

\* realestate-aud-to-usd.user.js:111  weeklyAud > 50
MIN_WEEKLY_AUD == 50

MaxAudInserts == 1
MaxAudTime == 1200
AudStep == AUD_DEBOUNCE_MS \div 2

\* The nodes of a realestate.com.au document carry their tag; s says that the
\* element matches namedSelectors.join(',').
EA(p, tag, named) == [p |-> p, k |-> "el", t |-> <<>>, s |-> named, tag |-> tag]
TA(p, toks) == [p |-> p, k |-> "text", t |-> toks, s |-> FALSE, tag |-> "#text"]

Approx == Tok("approx", <<>>)
UsdMonth == Tok("usdmonth", <<>>)

\* A realestate.com.au document: the tree of MkDom with the tag of every node,
\* the elements carrying data-converted (converted), and for every label
\* element the element it was inserted after and the rate it was computed
\* with (labelFor, labelRate).
MkPage(nodes) ==
  LET d == MkDom(nodes)
  IN [kind |-> d.kind, kids |-> d.kids, par |-> d.par, text |-> d.text, sel |-> d.sel,
      tag |-> [n \in NodeIds |-> IF n <= Len(nodes) THEN nodes[n].tag ELSE ""],
      converted |-> {},
      labelFor |-> [n \in NodeIds |-> NoNode],
      labelRate |-> [n \in NodeIds |-> NoRate]]

\* The page appends the subtree tmpl as the last child of element p.
GraftPage(d, p, tmpl) ==
  LET base == Used(d)
  IN [Graft(d, p, tmpl) EXCEPT
        !.tag = [n \in NodeIds |->
                   IF n > base /\ n <= base + Len(tmpl) THEN tmpl[n - base].tag ELSE @[n]]]

\* /\$[\d,]+/ and /\$([\d,]+)/: the first "$" followed by digits or commas
\* (that of "-$1,452" included), 0 for no match.
DollarAmount(s) ==
  LET at == {i \in 1..Len(s) : s[i].t \in {"amt", "minus"}}
  IN IF at = {} THEN 0 ELSE CHOOSE i \in at : \A k \in at : i <= k

includesPerWeekAlways(s) == TRUE

\* el.textContent.toLowerCase().includes('per week')
includesPerWeek(s) == \E i \in 1..Len(s) : s[i].t = "pw"

\* parseFloat(match[1].replace(/,/g, '')): the capture holds only digits and
\* commas, so the result is NaN exactly when no digit is left.
parseFloat(ds) ==
  IF StripCommas(ds) = <<>> THEN NaN ELSE DigitsValue(StripCommas(ds))

\* amount.toLocaleString('en-US', {style: 'currency', currency: 'USD',
\* maximumFractionDigits: 0}): "$1,452", and "-$1,452" below zero.
formatUsdCurrency(amount) ==
  IF amount < 0 THEN Tok("minus", toLocaleString(0 - amount))
  ELSE Amt(toLocaleString(amount))

\* `~${formatUsd(usdPerMonth)} USD/month`
labelText(usdPerMonth) == <<Approx, formatUsdCurrency(usdPerMonth), UsdMonth>>

\* insertConversionLabel(el, weeklyAud): the label element and its text node
\* are created, the label is inserted after el among the children of el's
\* parent, and el is marked.
insertConversionLabel(d, el, weeklyAud, rate) ==
  LET usdPerMonth == audPerWeekToUsdPerMonth(weeklyAud, rate)
      label == Used(d) + 1
      txt == Used(d) + 2
      p == Parent(d, el)
      at == CHOOSE i \in 1..Len(d.kids[p]) : d.kids[p][i] = el
  IN [d EXCEPT
        !.kind[label] = "el", !.kind[txt] = "text",
        !.tag[label] = "div", !.tag[txt] = "#text",
        !.par[label] = p, !.par[txt] = label,
        !.kids[p] = SubSeq(@, 1, at) \o <<label>> \o SubSeq(@, at + 1, Len(@)),
        !.kids[label] = <<txt>>,
        !.text[txt] = labelText(usdPerMonth),
        !.labelFor[label] = el,
        !.labelRate[label] = rate,
        !.converted = @ \cup {el}]

\* document.querySelectorAll(namedSelectors.join(','))
namedSelectors(d) == SelectSeq(ElementsOf(d, Body), LAMBDA el : el \in d.sel)

\* Array.from(document.querySelectorAll('p, span, div')).filter(...)
textFallback(d) ==
  SelectSeq(ElementsOf(d, Body),
            LAMBDA el :
              /\ d.tag[el] \in {"p", "span", "div"}
              /\ \A m \in Range(ElementsOf(d, el)) : d.tag[m] \notin {"p", "span", "div"}
              /\ DollarAmount(textContent(d, el)) # 0
              /\ includesPerWeek(textContent(d, el)))

isConvertedNever(d, el) == FALSE

\* el.dataset.converted
isConverted(d, el) == el \in d.converted

RECURSIVE candidatesLoop(_, _, _, _)
\* for (const el of candidates) { ... }
candidatesLoop(d, candidates, seen, rate) ==
  IF candidates = <<>> THEN d
  ELSE LET el == Head(candidates)
           s == textContent(d, el)
           match == DollarAmount(s)
           weeklyAud == parseFloat(s[match].ds)
       IN IF el \in seen \/ isConverted(d, el)
          THEN candidatesLoop(d, Tail(candidates), seen, rate)
          ELSE IF match = 0
          THEN candidatesLoop(d, Tail(candidates), seen \cup {el}, rate)
          ELSE candidatesLoop(
                 IF weeklyAud # NaN /\ weeklyAud > MIN_WEEKLY_AUD
                 THEN insertConversionLabel(d, el, weeklyAud, rate) ELSE d,
                 Tail(candidates), seen \cup {el}, rate)

\* convertPricesOnPage(), reading the shared rate
convertPricesOnPage(d, rate) ==
  candidatesLoop(d, namedSelectors(d) \o textFallback(d), {}, rate)

\* ---------------------------------- realestate-aud-to-usd.user.js: the steps

\* The request is sent and onload has not run.
Pending == [kind |-> "pending", usd |-> NoRate]

\* The script's body: fetchRate(); convertPricesOnPage(); the observer.
init ==
  /\ audPc = "start"
  /\ audFetch' = Pending
  /\ page' = convertPricesOnPage(page, audToUsdRate)
  /\ audPasses' = audPasses + 1
  /\ audPc' = "running"
  /\ audOp' = "init"
  /\ UNCHANGED <<domVars, convVars, startVars, loopVars, audToUsdRate, audTimer,
                 audRecords, audNow, audInserts>>

\* The request ends without a response: no onerror handler is given.
RequestError ==
  /\ audPc = "running" /\ audFetch = Pending
  /\ ~audRecords
  /\ audFetch' = [kind |-> "neterr", usd |-> NoRate]
  /\ audOp' = "neterr"
  /\ UNCHANGED <<domVars, convVars, startVars, loopVars, page, audToUsdRate, audPc,
                 audTimer, audRecords, audNow, audPasses, audInserts>>

\* onload(response)
onload(resp) ==
  /\ audPc = "running" /\ audFetch = Pending
  /\ ~audRecords
  /\ resp.kind \in {"badjson", "nofield", "ok"}
  /\ audFetch' = resp
  /\ IF resp.kind = "ok" /\ Truthy(resp.usd)
     THEN /\ audToUsdRate' = resp.usd
          /\ page' = convertPricesOnPage(page, resp.usd)
          /\ audPasses' = audPasses + 1
          /\ audRecords' = (page' # page)
          /\ audOp' = "refresh"
     ELSE /\ audOp' = "unusable"
          /\ UNCHANGED <<page, audToUsdRate, audPasses, audRecords>>
  /\ UNCHANGED <<domVars, convVars, startVars, loopVars, audPc, audTimer, audNow,
                 audInserts>>

\* The nodes the passes to come may still add to d: a label element and its
\* text node for every element that has no label yet.
Unlabelled(d) ==
  2 * Cardinality({el \in NodeIds \ {Body} :
                     /\ d.kind[el] = "el" /\ el \notin d.converted
                     /\ d.labelFor[el] = NoNode})

\* The page appends a subtree to the body; the observer records it.
AudPageInsert(tmpl) ==
  /\ audPc = "running"
  /\ audInserts < MaxAudInserts
  /\ audNow + 2 * AUD_DEBOUNCE_MS <= MaxAudTime
  /\ Used(page) + Len(tmpl) + Unlabelled(GraftPage(page, Body, tmpl)) <= MaxNodes
  /\ page' = GraftPage(page, Body, tmpl)
  /\ audInserts' = audInserts + 1
  /\ audRecords' = TRUE
  /\ audOp' = "page"
  /\ UNCHANGED <<domVars, convVars, startVars, loopVars, audToUsdRate, audPc, audFetch,
                 audTimer, audNow, audPasses>>

\* The MutationObserver's callback: debounce(convertPricesOnPage, DEBOUNCE_MS),
\* that is clearTimeout(timer); timer = setTimeout(() => fn(...args), ms)
AudObserverCallback ==
  /\ audPc = "running"
  /\ audRecords
  /\ audTimer' = audNow + AUD_DEBOUNCE_MS
  /\ audRecords' = FALSE
  /\ audOp' = "observe"
  /\ UNCHANGED <<domVars, convVars, startVars, loopVars, page, audToUsdRate, audPc,
                 audFetch, audNow, audPasses, audInserts>>

\* The debounce timer fires: convertPricesOnPage runs.
AudDebounceFire ==
  /\ audTimer # 0 /\ audNow = audTimer
  /\ ~audRecords
  /\ page' = convertPricesOnPage(page, audToUsdRate)
  /\ audPasses' = audPasses + 1
  /\ audRecords' = (page' # page)
  /\ audTimer' = 0
  /\ audOp' = "pass"
  /\ UNCHANGED <<domVars, convVars, startVars, loopVars, audToUsdRate, audPc, audFetch,
                 audNow, audInserts>>

AudNextTime == Min({audNow + AudStep} \cup ({audTimer} \ {0}))

\* Time passes on the realestate.com.au page: no callback is due.
AudAdvance ==
  /\ audPc = "running"
  /\ ~audRecords
  /\ AudNextTime > audNow
  /\ AudNextTime <= MaxAudTime
  /\ audNow' = AudNextTime
  /\ audOp' = "time"
  /\ UNCHANGED <<domVars, convVars, startVars, loopVars, page, audToUsdRate, audPc,
                 audFetch, audTimer, audRecords, audPasses, audInserts>>

\* The weekly rents the realestate.com.au page shows: "$500", "$900", "$50"
\* and "$," (no digit).
AudAmounts == {<<"5", "0", "0">>, <<"9", "0", "0">>, <<"5", "0">>, <<",">>}

AudPrice(ds) == <<Amt(ds), Ws, Pw>>

\* The listings: a price in a span matching a named selector; a price in a
\* plain span, with and without "per week"; a named div around a span holding
\* the price; a plain div around a named h2 holding the price; a named div
\* around a named span.
AudDocs ==
  UNION {
    { MkPage(<<EA(0, "body", FALSE), EA(1, "span", named), TA(2, AudPrice(ds))>>),
      MkPage(<<EA(0, "body", FALSE), EA(1, "span", named), TA(2, <<Amt(ds)>>)>>),
      MkPage(<<EA(0, "body", FALSE), EA(1, "div", named), EA(2, "span", inner),
               TA(3, AudPrice(ds))>>),
      MkPage(<<EA(0, "body", FALSE), EA(1, "div", FALSE), EA(2, "h2", TRUE),
               TA(3, AudPrice(ds))>>) }
    : ds \in AudAmounts, named \in BOOLEAN, inner \in BOOLEAN }

AudTemplates ==
  { <<EA(0, "span", FALSE), TA(1, AudPrice(<<"9", "0", "0">>))>>,
    <<EA(0, "h2", TRUE), TA(1, <<Amt(<<"9", "0", "0">>)>>)>> }

AudIdle ==
  /\ page = MkPage(<<EA(0, "body", FALSE)>>)
  /\ audToUsdRate = AUD_FALLBACK_RATE
  /\ audPc = "off"
  /\ audFetch = NoResponse
  /\ audTimer = 0
  /\ audRecords = FALSE
  /\ audNow = 0
  /\ audPasses = 0
  /\ audInserts = 0
  /\ audOp = "none"

\* The script installed on a listing page.
InitAud ==
  /\ page \in AudDocs
  /\ audToUsdRate = AUD_FALLBACK_RATE
  /\ audPc = "start"
  /\ audFetch = NoResponse
  /\ audTimer = 0
  /\ audRecords = FALSE
  /\ audNow = 0
  /\ audPasses = 0
  /\ audInserts = 0
  /\ audOp = "none"
  /\ DomIdle /\ ConvIdle /\ StartIdle /\ LoopIdle

NextAud ==
  \/ init
  \/ RequestError
  \/ \E resp \in Responses : onload(resp)
  \/ \E tmpl \in AudTemplates : AudPageInsert(tmpl)
  \/ AudObserverCallback
  \/ AudDebounceFire
  \/ AudAdvance

SpecAud == InitAud /\ [][NextAud]_vars

\* AudDebounceFire can run: the timer is due and no record is queued.
TimerDue == audTimer # 0 /\ audNow = audTimer /\ ~audRecords

\* The browser delivers queued mutation records, lets time pass and fires a
\* timer that is due.  The last conjunct is weak fairness of AudDebounceFire
\* written out: the action is enabled exactly when TimerDue holds, and its
\* steps are the steps that count a pass with audOp' = "pass".
FairSpecAud ==
  /\ SpecAud
  /\ WF_vars(AudObserverCallback)
  /\ WF_vars(AudAdvance)
  /\ \/ []<>(~TimerDue)
     \/ []<><<audOp' = "pass" /\ audPasses' = audPasses + 1>>_vars

\* The DOM engine alone: any document of Docs, the fallback rate.
InitDom ==
  /\ dom \in Docs
  /\ resolvedRate = FALLBACK_RATE
  /\ added = {}
  /\ lastOp = "none"
  /\ inserts = 0
  /\ ConvIdle /\ StartIdle /\ LoopIdle /\ AudIdle

NextDom ==
  \/ BodyPass
  \/ \E r \in NodeIds : RootPass(r)
  \/ \E p \in NodeIds, tmpl \in Templates : PageInsert(p, tmpl)

SpecDom == InitDom /\ [][NextDom]_vars

\* ------------------------------------------------- the converter on its own

\* Weekly amounts the converter is called with: 0..MaxAmount.
MaxAmount == 600

\* Rates the converter is called with: the two fallback constants, a rate an
\* endpoint gives, and 1/2, which puts results half-way between two integers.
\* On these inputs the double arithmetic of the scripts gives the integers
\* that exact arithmetic gives.
ConvRates ==
  {[num |-> 59, den |-> 100], [num |-> 67, den |-> 100], [num |-> 61, den |-> 100],
   [num |-> 1, den |-> 2]}

ConvResult(who, out) == [who |-> who, out |-> out, shown |-> formatUsd(out)]

ConvertNzd ==
  /\ convOut' = convOut \cup
       {ConvResult("nzd", nzdPerWeekToUsdPerMonth(convIn.amount, convIn.rate))}
  /\ UNCHANGED <<convIn, domVars, startVars, loopVars, audVars>>

ConvertAud ==
  /\ convOut' = convOut \cup
       {ConvResult("aud", audPerWeekToUsdPerMonth(convIn.amount, convIn.rate))}
  /\ UNCHANGED <<convIn, domVars, startVars, loopVars, audVars>>

InitConv ==
  /\ convIn \in [amount : 0..MaxAmount, rate : ConvRates]
  /\ convOut = {}
  /\ DomIdle /\ StartIdle /\ LoopIdle /\ AudIdle

NextConv == ConvertNzd \/ ConvertAud

SpecConv == InitConv /\ [][NextConv]_vars

\* The pages the whole script is run on.
LoopDocs ==
  { MkDom(<<E(0), E(1), T(2, <<Amt(<<"5", "6", "0">>), Ws, Pw>>)>>) }

\* What the script may find in localStorage: nothing, or a rate stored an hour
\* ago to the millisecond, or one millisecond less than an hour ago.
Caches ==
  {[rate |-> NoRate, time |-> 0]}
    \cup {[rate |-> [num |-> 60, den |-> 100], time |-> t] :
            t \in {StartTime - CACHE_TTL_MS, StartTime - CACHE_TTL_MS + 1}}

ScriptInit(cache, writable, body, rs, h) ==
  /\ dom \in LoopDocs
  /\ resolvedRate = NoRate
  /\ added = {}
  /\ lastOp = "none"
  /\ inserts = 0
  /\ ConvIdle
  /\ AudIdle
  /\ pc = "start"
  /\ storageWritable = writable
  /\ cacheRate = cache.rate
  /\ cacheTime = cache.time
  /\ cache0 = cache
  /\ fetches = 0
  /\ settled = NoResponse
  /\ hasBody = body
  /\ readyState = rs
  /\ now = StartTime
  /\ horizon = StartTime + h
  /\ observing = FALSE
  /\ sweepAt = 0
  /\ lastScrollTime = 0
  /\ debounceAt = 0
  /\ debounceArgs = <<>>
  /\ orphans = {}
  /\ unscanned = 0
  /\ mutationQueue = <<>>
  /\ burst = {}
  /\ lastScan = NoScan
  /\ sweepPasses = 0
  /\ scrolls = 0

\* Every environment, watched until the first sweep tick has come.
Init ==
  \E cache \in Caches, writable \in BOOLEAN, body \in BOOLEAN,
     rs \in {"loading", "complete"} :
       /\ (rs = "complete" => body)
       /\ ScriptInit(cache, writable, body, rs, SWEEP_INTERVAL_MS + MaxLoadTime)

Spec == Init /\ [][Next]_vars

\* A static page and a user who scrolls: a fresh cached rate, a parsed
\* document, nothing inserted, watched for MaxTime.
InitSweep ==
  ScriptInit([rate |-> [num |-> 60, den |-> 100], time |-> StartTime - 1], TRUE, TRUE,
             "complete", MaxTime)

NextSweep ==
  \/ ScriptStart
  \/ ThenInit
  \/ Scroll
  \/ SweepTick
  \/ Advance

SpecSweep == InitSweep /\ [][NextSweep]_vars

\* A page that keeps inserting listings under a user who may scroll: the
\* environment of SpecSweep with the page's mutations and the observer.
NextIdle ==
  \/ ScriptStart
  \/ ThenInit
  \/ \E p \in LoopPositions, tmpl \in LoopTemplates : PageMutation(p, tmpl)
  \/ ObserverCallback
  \/ DebounceFire
  \/ Scroll
  \/ SweepTick
  \/ Advance

SpecIdle == InitSweep /\ [][NextIdle]_vars

\* Both scripts, each on its own page: the DOM engine of the NZD script on
\* the documents of SpecDom, the AUD script on those of SpecAud.
InitMarkers == InitDom \/ InitAud

NextMarkers == (audPc = "off" /\ NextDom) \/ NextAud

SpecMarkers == InitMarkers /\ [][NextMarkers]_vars

\* ------------------------------------------------------------------ claims

\* Some proper ancestor of n carries the processed marker.
UnderMarked(d, n) == hasConvertedAncestor(d, Parent(d, n), NoNode)

\* C1 (as claimed): a full-document pass that directly follows a full-document
\* pass, with no page mutation in between, changes nothing in the tree: no text
\* rewritten, no node removed, no marker added.
C1_Idempotent == [][(lastOp = "body" /\ lastOp' = "body") => dom' = dom]_vars

\* C2 (as claimed): no text node is ever rewritten more than once, within one
\* transformSubtree invocation or across invocations.
C2_NoDoubleProcessing == \A n \in NodeIds : dom.writes[n] <= 1

\* C3 (as claimed): a node that has a marked proper ancestor is left alone by
\* every later step: its text is not rewritten, it is not marked and it is not
\* removed, whatever root the invocation is given.
C3_MarkerInheritance ==
  [][\A n \in NodeIds :
        (dom.kind[n] # "free" /\ UnderMarked(dom, n)) =>
          /\ dom'.text[n] = dom.text[n]
          /\ dom'.writes[n] = dom.writes[n]
          /\ (n \in dom'.conv) = (n \in dom.conv)
          /\ dom'.par[n] = dom.par[n]]_vars

\* C4 (as claimed): the re-scan that follows a burst of observer callbacks,
\* each less than the debounce window after the one before, processes every
\* root any callback of the burst collected.
C4_Coalescing == lastScan.burst \subseteq lastScan.roots

\* C5: every result the converters return is an integer nearest to
\* amount * 52 / 12 * rate, and for given arguments there is one result, the
\* same from the NZD and the AUD converter.
C5_ConverterResult ==
  /\ \A r \in convOut :
       LET p == convIn.amount * 52 * convIn.rate.num
           q == 12 * convIn.rate.den
       IN /\ 2 * (q * r.out - p) <= q
          /\ 2 * (p - q * r.out) <= q
  /\ \A r1, r2 \in convOut : r1.out = r2.out

C5_Witness ==
  /\ convIn = [amount |-> 3, rate |-> [num |-> 1, den |-> 2]]
  /\ Cardinality(convOut) = 2

Example560 ==
  /\ convIn = [amount |-> 560, rate |-> [num |-> 59, den |-> 100]]
  /\ \E r \in convOut : r.who = "nzd"

\* C6 (as claimed): for weekly amount 560 and rate 0.59 the converter returns
\* 1430, displayed as US$1,430.
C6_Example1430 ==
  Example560 =>
    \A r \in convOut :
      r.who = "nzd" => r.out = 1430 /\ r.shown = Amt(<<"1", ",", "4", "3", "0">>)

\* C6 (amended): for weekly amount 560 and rate 0.59 the converter returns
\* 1432 (560 * 52 / 12 * 0.59 = 1431.73...), displayed as US$1,432.
C6_Example1432 ==
  Example560 =>
    \A r \in convOut :
      r.who = "nzd" => r.out = 1432 /\ r.shown = Amt(<<"1", ",", "4", "3", "2">>)

C6_Witness == Example560 /\ ConvResult("nzd", 1432) \in convOut

\* The cache held a rate and a timestamp less than an hour old at script start.
FreshCache ==
  /\ Truthy(cache0.rate)
  /\ cache0.time # 0
  /\ StartTime - cache0.time < CACHE_TTL_MS

\* The endpoint's answer carries rates.USD.
CarriesUsd == settled.kind = "ok" /\ Truthy(settled.usd)

\* C7 (as claimed): once getRate has settled, it has not rejected; with a fresh
\* cache it returned the cached rate and made no fetch; otherwise it made
\* exactly one fetch, and when the answer carries rates.USD it stored that
\* rate with the current time and returned it, and else returned 0.59.
C7_ResolutionOrder ==
  pc \notin {"start", "fetching"} =>
    /\ pc # "rejected"
    /\ IF FreshCache
       THEN resolvedRate = cache0.rate /\ fetches = 0
       ELSE /\ fetches = 1
            /\ IF CarriesUsd
               THEN /\ resolvedRate = settled.usd
                    /\ cacheRate = settled.usd
                    /\ cacheTime >= StartTime /\ cacheTime <= now
                    /\ lastOp = "settle" => cacheTime = now
               ELSE resolvedRate = FALLBACK_RATE

\* The fetch was made and failed: a network error or an unusable answer.
FetchFailed == settled.kind # "none" /\ ~CarriesUsd

\* The text a pass at the fallback rate leaves in a text node it rewrote.
FallbackText(s) ==
  LET nzd == parseInt(s[1].ds)
  IN replacementText(nzd, nzdPerWeekToUsdPerMonth(nzd, FALLBACK_RATE))

\* C8: after a failed fetch the script holds the fallback rate, is not stopped
\* by a rejection (a continuation is pending until it is active), has the
\* observer and the sweep timer installed once active, and every text the
\* initial pass or a later pass wrote is converted at the fallback rate.
C8_FallbackScenario ==
  FetchFailed =>
    /\ resolvedRate = FALLBACK_RATE
    /\ pc \in {"resolved", "waitDCL", "waitRetry", "active"}
    /\ pc = "waitDCL" => readyState = "loading"
    /\ pc = "active" => observing /\ sweepAt # 0
    /\ \A n \in NodeIds :
         dom.writes[n] > 0 => dom.text[n] = FallbackText(dom.text[n])

C8_Witness ==
  /\ settled.kind = "neterr"
  /\ pc = "active"
  /\ lastOp = "rescan"
  /\ \E n \in NodeIds : dom.writes[n] > 0 /\ n \in lastScan.roots \cup {m \in NodeIds : dom.par[m] \in lastScan.roots}

\* Something of the change loop is installed, or a pass has run.
Installed == observing \/ sweepAt # 0 \/ debounceAt # 0
Processed ==
  \/ lastOp \in {"init", "rescan", "sweep", "idle"}
  \/ dom.conv # {}
  \/ \E n \in NodeIds : dom.writes[n] > 0

\* The steps of the activation state machine.
PhaseSteps ==
  {<<"start", "fetching">>, <<"start", "resolved">>, <<"fetching", "resolved">>,
   <<"resolved", "active">>, <<"resolved", "waitDCL">>, <<"resolved", "waitRetry">>,
   <<"waitDCL", "active">>, <<"waitDCL", "waitRetry">>, <<"waitRetry", "active">>}

\* C9: the script moves start -> rate pending -> active; nothing is installed
\* and no pass has run unless it is active, with the rate resolved and the
\* body present; it becomes active only in a state where the body exists, and
\* when the body is missing at rate resolution it defers.
C9_ActivationGating ==
  /\ []((Installed \/ Processed) =>
          pc = "active" /\ hasBody /\ resolvedRate # NoRate)
  /\ [][/\ pc' # pc => <<pc, pc'>> \in PhaseSteps
        /\ (pc' = "active" /\ pc # "active") => hasBody /\ resolvedRate # NoRate
        /\ (pc = "resolved" /\ pc' # pc /\ ~hasBody) => pc' \in {"waitDCL", "waitRetry"}]_vars

C9_Witness == pc = "waitRetry" /\ hasBody /\ lastOp = "defer" /\ ~observing

\* C10: a sweep tick more than SWEEP_IDLE_MS after the last scroll event (or
\* after activation) runs no pass and changes nothing in the document; a tick
\* runs a pass only within SWEEP_IDLE_MS of one; and with no scroll event at
\* most SWEEP_IDLE_MS / SWEEP_INTERVAL_MS passes are ever run.
C10_SweepSuppression ==
  /\ [][(sweepAt # 0 /\ sweepAt' # sweepAt) =>
          IF now - lastScrollTime > SWEEP_IDLE_MS
          THEN sweepPasses' = sweepPasses /\ dom' = dom
          ELSE sweepPasses' = sweepPasses + 1]_vars
  /\ [][sweepPasses' # sweepPasses => now - lastScrollTime <= SWEEP_IDLE_MS]_vars
  /\ [](scrolls = 0 => sweepPasses <= SWEEP_IDLE_MS \div SWEEP_INTERVAL_MS)

C10_Witness ==
  /\ lastOp = "idle"
  /\ scrolls = 0
  /\ sweepPasses = SWEEP_IDLE_MS \div SWEEP_INTERVAL_MS

\* An element el that pass 2 would take for a split price but for its size:
\* unmarked, combined text matching, no single matching text node, more than
\* MAX_TEXT_NODES text nodes.
WideCandidate(el) ==
  /\ dom.kind[el] = "el" /\ el \in InDocument(dom)
  /\ ~hasConvertedAncestor(dom, el, NoNode)
  /\ PRICE_REGEX(textContent(dom, el))[1] # 0
  /\ \A n \in Range(TextNodesOf(dom, el)) : PRICE_REGEX(dom.text[n])[1] = 0
  /\ Len(TextNodesOf(dom, el)) > MAX_TEXT_NODES

\* C11: every element pass 2 has marked as a split-price anchor held at most 6
\* text nodes when pass 2 examined it, and a pass leaves an element of more
\* than 6 text nodes unmarked and its text nodes unwritten though its combined
\* text matches the price pattern.
C11_ContainmentBound ==
  /\ [](\A el \in NodeIds : dom.anchorTexts[el] <= 6)
  /\ [][\A el \in NodeIds :
          (WideCandidate(el) /\ Len(TextNodesOf(dom', el)) > 6) =>
             dom'.anchorTexts[el] = 0]_vars

C11_Witness == lastOp = "body" /\ WideCandidate(Body) /\ dom.conv # {}

\* The amounts of the conversions a text shows: each "$<a>" that is followed
\* by "/wk" was written by a layer for the extracted amount a.
ShownAmounts(toks) ==
  {parseInt(toks[i].ds) : i \in {j \in 1..(Len(toks) - 1) :
                                   toks[j].t = "amt" /\ toks[j + 1].t = "wk"}}

\* C14 (as claimed): no layer converts a candidate whose extracted amount is
\* non-numeric or not positive: no text in the document shows a conversion of
\* such an amount.
C14_AmountRejection ==
  \A n \in NodeIds : \A a \in ShownAmounts(dom.text[n]) : a > 0

\* C15 (as claimed): the rate a processing pass uses is a number greater than
\* 0, whatever the cache holds and whatever rates.USD the endpoint returns, and
\* the rate does not change once the script is active.
C15_RatePositivity ==
  /\ [](Processed => resolvedRate.num > 0 /\ resolvedRate.den > 0)
  /\ [][pc = "active" => resolvedRate' = resolvedRate]_vars

\* The text toks holds, at some place, the display string of a conversion at
\* rate r: "$<a grouped>/wk . US$<m grouped>/mo" with m = round(a * 52 / 12 * r).
ShowsConversion(toks, r) ==
  \E i \in 1..(Len(toks) - 3) :
    /\ toks[i].t = "amt"
    /\ LET a == parseInt(toks[i].ds)
       IN /\ a # NaN
          /\ SubSeq(toks, i, i + 3) = replacementText(a, nzdPerWeekToUsdPerMonth(a, r))

\* C16 (as claimed): whichever layer rewrote a text node (once), the node's
\* text holds exactly the display string for the amount it converted.
C16_DisplayString ==
  \A n \in NodeIds : dom.writes[n] = 1 => ShowsConversion(dom.text[n], resolvedRate)

\* C17 (as claimed): an element pass 2 marks as the anchor of a split price has,
\* when it is chosen, no element beneath it whose own combined text matches the
\* price pattern and passes the filters of pass 2.
C17_MinimalAnchor == dom.loose = {}

\* C19: at most one debounce timer is pending, and re-scans never outnumber
\* the quiet windows begun.
C19_NoStacking ==
  /\ Cardinality(PendingDebounce) <= 1
  /\ unscanned >= 0

\* A single re-scan has followed a burst of more than one trigger.
C19_Witness ==
  /\ lastOp = "rescan"
  /\ ~(lastScan.burst \subseteq lastScan.roots)
  /\ PendingDebounce = {}

\* An element of the document that holds a price no pass has converted.
Unprocessed(el) ==
  /\ el \in InDocument(dom) /\ dom.kind[el] = "el"
  /\ el \notin dom.conv /\ ~UnderMarked(dom, el)
  /\ \E tn \in Range(TextNodesOf(dom, el)) :
       Parent(dom, tn) = el /\ PRICE_REGEX(dom.text[tn])[1] # 0

\* el lies in the subtree of a root in roots.
Within(el, roots) ==
  \E r \in Range(roots) : el = r \/ el \in Range(Descendants(dom, r))

\* Some pass that is due will visit el: the re-scan of a root the observer has
\* queued or debounced, or the next tick of the sweep.
Awaited(el) ==
  \/ Within(el, mutationQueue)
  \/ \E q \in PendingDebounce : Within(el, q.args)
  \/ (sweepAt # 0 /\ ~sweepIdle(sweepAt, lastScrollTime))

\* C18: once the script is active, every element of the document that holds
\* an unprocessed price is awaited by a pass: the debounced re-scan of its
\* inserted root or a full-body sweep.
C18_EventualProcessing ==
  pc = "active" => \A el \in NodeIds : Unprocessed(el) => Awaited(el)

\* The label elements of the page.
Labels == {l \in NodeIds : page.labelFor[l] # NoNode}

\* The text nodes of the page that show a price of the page's own.
PriceOccurrences ==
  {tn \in InDocument(page) :
     /\ page.kind[tn] = "text"
     /\ page.labelFor[Parent(page, tn)] = NoNode
     /\ DollarAmount(page.text[tn]) # 0}

\* The labels that annotate the price in text node tn: those inserted after
\* an element holding tn.
LabelsOf(tn) ==
  {l \in Labels : tn \in Range(TextNodesOf(page, page.labelFor[l]))}

\* C13: no element has more than one conversion label, and no price
\* occurrence is annotated by more than one label, whichever of the named
\* selectors and the text-content fallback found it.
C13_SingleAnnotation ==
  /\ \A el \in NodeIds : Cardinality({l \in Labels : page.labelFor[l] = el}) <= 1
  /\ \A tn \in PriceOccurrences : Cardinality(LabelsOf(tn)) <= 1

\* The text of label l shows the rent of the element it follows, converted
\* with rate r.
LabelShows(d, l, r) ==
  LET s == textContent(d, d.labelFor[l])
  IN d.text[d.kids[l][1]] =
       labelText(audPerWeekToUsdPerMonth(parseFloat(s[DollarAmount(s)].ds), r))

\* Label l of document d is in document e as it is in d.
SameLabel(d, e, l) ==
  /\ e.labelFor[l] = d.labelFor[l]
  /\ e.par[l] = d.par[l]
  /\ e.kids[l] = d.kids[l]
  /\ e.text[d.kids[l][1]] = d.text[d.kids[l][1]]

LabelsIn(d) == {l \in NodeIds : d.labelFor[l] # NoNode}

\* onload got a response whose rates.USD is truthy.
Usable(resp) == resp.kind = "ok" /\ Truthy(resp.usd)

\* C12: the script body runs a pass at once, and until the request is answered
\* every label is computed with the fallback rate.  The step in which onload
\* gets a usable rate replaces the shared rate by it and runs one pass; that
\* pass leaves every label already there as it is, gives no second label to a
\* labelled element, and computes every label it adds with the fetched rate,
\* as does every later pass.
C12_BackgroundFetch ==
  /\ [](audPc = "running" => audPasses >= 1)
  /\ [](audFetch = Pending =>
          /\ audToUsdRate = AUD_FALLBACK_RATE
          /\ \A l \in Labels : LabelShows(page, l, AUD_FALLBACK_RATE))
  /\ [](Usable(audFetch) => audToUsdRate = audFetch.usd)
  /\ [][(audFetch = Pending /\ Usable(audFetch')) =>
          /\ audPasses' = audPasses + 1
          /\ \A l \in Labels : SameLabel(page, page', l)
          /\ \A el \in page.converted :
               {l \in LabelsIn(page') : page'.labelFor[l] = el}
                 = {l \in Labels : page.labelFor[l] = el}
          /\ \A l \in LabelsIn(page') \ Labels : LabelShows(page', l, audFetch'.usd)]_vars
  /\ [][Usable(audFetch) =>
          \A l \in LabelsIn(page') \ Labels : LabelShows(page', l, audFetch.usd)]_vars

\* The pass onload ran has added a label computed with the fetched rate next
\* to one computed with the fallback rate.
C12_Witness ==
  /\ audOp = "refresh"
  /\ \E l \in Labels : page.labelRate[l] = AUD_FALLBACK_RATE
  /\ \E l \in Labels :
       /\ page.labelRate[l] = audToUsdRate
       /\ page.text[page.kids[l][1]] #
            labelText(audPerWeekToUsdPerMonth(
              parseFloat(textContent(page, page.labelFor[l])[1].ds), AUD_FALLBACK_RATE))

\* The element of d that label l follows comes right before l among the
\* children of their parent.
FollowsAnchor(d, l) ==
  LET ks == d.kids[d.par[l]]
  IN \E i \in 1..(Len(ks) - 1) : ks[i] = d.labelFor[l] /\ ks[i + 1] = l

\* C20: no step of either script removes a processed marker, and markers and
\* writes come together.  NZD script: every text node a pass has rewritten
\* lies under a marked element, every marked element holds a rewritten text
\* node, and a step that rewrites a text node marks an element above it.
\* AUD script: every label follows a marked element, every marked element is
\* followed by its label, and a step marks exactly the elements it labels.
C20_MonotonicMarker ==
  /\ [][dom.conv \subseteq dom'.conv /\ page.converted \subseteq page'.converted]_vars
  /\ [](\A tn \in NodeIds :
          (dom.kind[tn] = "text" /\ dom.writes[tn] > 0) => UnderMarked(dom, tn))
  /\ [](\A el \in dom.conv :
          \E tn \in Range(TextNodesOf(dom, el)) : dom.writes[tn] > 0)
  /\ [][\A tn \in NodeIds :
          dom'.writes[tn] > dom.writes[tn] =>
            \E el \in dom'.conv \ dom.conv : tn \in Range(TextNodesOf(dom', el))]_vars
  /\ [](\A l \in Labels : page.labelFor[l] \in page.converted /\ FollowsAnchor(page, l))
  /\ [](\A el \in page.converted : \E l \in Labels : page.labelFor[l] = el)
  /\ [][page'.converted \ page.converted
          = {page'.labelFor[l] : l \in LabelsIn(page') \ Labels}]_vars

\* A pass of the NZD script has run on a document that already held a marked
\* element, and has marked another.
C20_Witness ==
  /\ lastOp = "root"
  /\ Cardinality(dom.conv) >= 2
  /\ \E tn \in NodeIds : dom.writes[tn] > 0

\* A pass with rate r would add no label to document d.
Quiet(d, r) == convertPricesOnPage(d, r) = d

\* C21: a pass that inserts a label queues a mutation record for the script's
\* own observer, and the callback arms the debounce timer; every pass leaves
\* a page on which a further pass inserts nothing, so the pass that follows
\* it changes nothing and leaves no timer; the passes number at most two for
\* the script body and onload and two for each insertion by the page; and
\* the script comes to rest with no record queued and no timer pending.
C21_Quiescence ==
  /\ [][(audPc = "running" /\ LabelsIn(page') # Labels) => audRecords']_vars
  /\ [][(audRecords /\ ~audRecords') => audTimer' = audNow + AUD_DEBOUNCE_MS]_vars
  /\ [][audPasses' # audPasses => Quiet(page', audToUsdRate')]_vars
  /\ [][(audPasses' # audPasses /\ Quiet(page, audToUsdRate)) =>
          /\ page' = page
          /\ ~audRecords'
          /\ audOp' = "pass" => audTimer' = 0]_vars
  /\ [](audPasses <= 2 + 2 * audInserts)
  /\ <>[](audTimer = 0 /\ ~audRecords)

\* The pass that a label insertion scheduled has run and inserted nothing.
C21_Witness ==
  /\ audOp = "pass"
  /\ audFetch = Pending
  /\ audPasses = 3
  /\ \E l \in Labels : page.labelFor[l] \in page.converted
  /\ audTimer = 0 /\ ~audRecords

====
